---------------------------- MODULE Spec2Model ----------------------------
(***************************************************************************)
(* A model of DMView (src/dmview): the Application coordinator, the two    *)
(* views (DMView = authoring, PlayerView = presentation) with their        *)
(* MapRenderer, the FogEditor raster operations, the Session/Map data      *)
(* classes and the SessionManager's files.                                 *)
(*                                                                         *)
(* Conventions.                                                            *)
(*  - An Optional value is a sequence: <<>> is None, <<v>> is the value v. *)
(*  - A float scale is an exact rational <<num, den>> with den > 0.        *)
(*  - Python's int(x) truncates toward zero: Trunc.                        *)
(*  - A PIL image is the record [w, h, px]; px maps <<x, y>> to 0..255.    *)
(*    A map surface is only its size <<w, h>>: no operation reads or       *)
(*    writes its pixels.                                                   *)
(***************************************************************************)
EXTENDS Integers, Sequences, FiniteSets, TLC

(***************************************************************************)
(* Bounds of the model.                                                    *)
(***************************************************************************)
\* Most maps a session holds at once.
MaxMaps == 3
\* Most imports over a run (ids are never reused, like uuid4).
MaxImports == 3
\* Drag samples counted within one stroke.
MaxSamples == 2
\* The largest |dx|, |dy| handed to pan_map.
BigDelta == 10000
\* The width of the masks a FogEditor is tried on alone (their height is 2).
FogEdge == 2
\* largest brush size the keys are followed to
MaxBrush == 15

None == <<>>
Some(v) == <<v>>
IsNone(o) == o = <<>>
IsSome(o) == o # <<>>
Get(o) == o[1]

Max(a, b) == IF a >= b THEN a ELSE b
Min(a, b) == IF a <= b THEN a ELSE b

(***************************************************************************)
(* Arithmetic on floats, as exact rationals.                               *)
(***************************************************************************)
\* int(a / b) for b > 0
Trunc(a, b) == IF a >= 0 THEN a \div b ELSE -((-a) \div b)
\* int(x / s)
IntDiv(x, s) == Trunc(x * s[2], s[1])
\* int(x * s)
IntMul(x, s) == Trunc(x * s[1], s[2])
RatLeq(a, b) == a[1] * b[2] <= b[1] * a[2]
RatMin(a, b) == IF RatLeq(a, b) THEN a ELSE b
RatPos(a) == a[1] > 0
RatEq(a, b) == a[1] * b[2] = b[1] * a[2]
One == <<1, 1>>

(***************************************************************************)
(* map_canvas.py: calculate_scale, screen_to_map, map_to_screen            *)
(***************************************************************************)
calculate_scale_inverse(tile_pixels, tile_mm, monitor_ppmm) ==
    <<tile_mm[2] * monitor_ppmm[2] * tile_pixels, tile_mm[1] * monitor_ppmm[1]>>

\* target_pixels = tile_mm * monitor_ppmm; return target_pixels / tile_pixels
calculate_scale(tile_pixels, tile_mm, monitor_ppmm) ==
    <<tile_mm[1] * monitor_ppmm[1], tile_mm[2] * monitor_ppmm[2] * tile_pixels>>

\* int((screen - offset) / scale + pan), per axis
screen_to_map_axis(s, scale, pan, off) ==
    Trunc((s - off) * scale[2] + pan * scale[1], scale[1])

screen_to_map(sx, sy, scale, pan_x, pan_y, off) ==
    <<screen_to_map_axis(sx, scale, pan_x, off[1]),
      screen_to_map_axis(sy, scale, pan_y, off[2])>>

map_to_screen_axis_unpanned(m, scale, pan, off) ==
    Trunc(m * scale[1] + off * scale[2], scale[2])

\* int((map - pan) * scale + offset), per axis
map_to_screen_axis(m, scale, pan, off) ==
    Trunc((m - pan) * scale[1] + off * scale[2], scale[2])

map_to_screen(mx, my, scale, pan_x, pan_y, off) ==
    <<map_to_screen_axis(mx, scale, pan_x, off[1]),
      map_to_screen_axis(my, scale, pan_y, off[2])>>

(***************************************************************************)
(* Rasters and map_canvas.py: FogEditor                                    *)
(***************************************************************************)
Pixels(w, h) == (0 .. w - 1) \X (0 .. h - 1)

\* Image.new("L", (w, h), v)
NewMask(w, h, v) == [w |-> w, h |-> h, px |-> [p \in Pixels(w, h) |-> v]]

Dims(m) == <<m.w, m.h>>

\* ImageDraw.ellipse([x - r, y - r, x + r, y + r], fill): the disc of radius r
InDisc(p, x, y, r) ==
    (p[1] - x) * (p[1] - x) + (p[2] - y) * (p[2] - y) <= r * r

\* ImageDraw.rectangle([l, t, r, b], fill): both corners inclusive
InRect(p, l, t, r, b) == l <= p[1] /\ p[1] <= r /\ t <= p[2] /\ p[2] <= b

FillColor_grey(reveal) == IF reveal THEN 128 ELSE 0

\* the fill value of a brush or rectangle
FillColor(reveal) == IF reveal THEN 255 ELSE 0

apply_brush_toggle(m, x, y, radius, reveal) ==
    [m EXCEPT !.px = [p \in Pixels(m.w, m.h) |->
        IF InDisc(p, x, y, radius) THEN 255 - m.px[p] ELSE m.px[p]]]

apply_brush(m, x, y, radius, reveal) ==
    [m EXCEPT !.px = [p \in Pixels(m.w, m.h) |->
        IF InDisc(p, x, y, radius) THEN FillColor(reveal) ELSE m.px[p]]]

apply_rectangle(m, x1, y1, x2, y2, reveal) ==
    [m EXCEPT !.px = [p \in Pixels(m.w, m.h) |->
        IF InRect(p, Min(x1, x2), Min(y1, y2), Max(x1, x2), Max(y1, y2))
        THEN FillColor(reveal) ELSE m.px[p]]]

reveal_all_short(m) ==
    [m EXCEPT !.px = [p \in Pixels(m.w, m.h) |->
        IF InRect(p, 0, 0, m.w - 2, m.h - 2) THEN 255 ELSE m.px[p]]]

\* rectangle([0, 0, width, height], fill = 255)
reveal_all(m) ==
    [m EXCEPT !.px = [p \in Pixels(m.w, m.h) |->
        IF InRect(p, 0, 0, m.w, m.h) THEN 255 ELSE m.px[p]]]

\* rectangle([0, 0, width, height], fill = 0)
hide_all(m) ==
    [m EXCEPT !.px = [p \in Pixels(m.w, m.h) |->
        IF InRect(p, 0, 0, m.w, m.h) THEN 0 ELSE m.px[p]]]

(***************************************************************************)
(* The state.                                                              *)
(***************************************************************************)
VARIABLES
    app,    \* Application: session (has, maps, active_map_index), _map_images,
            \*   _fog_masks, the uuid source (nextId), the edit transaction flag
    disk,   \* the session directory: session.json, maps/<image>, maps/<..>_fog.png
    dm,     \* DMView: renderer, preview canvas, tool and stroke state
    pv,     \* PlayerView: renderer and canvas
    env,    \* the pointer on the preview canvas: whether button 1 / button 3 is
            \*   held, and whether the button 3 press landed on the overlay item
    obs     \* observations of the last handler (history, not program state)

vars == <<app, disk, dm, pv, env, obs>>

Ids == 1 .. MaxImports
Stems == {"a", "b"}
Exts == {"png", "jpg"}
\* maps/<stem>[_<n>].<ext>
ImgPaths == [stem : Stems, n : 0 .. MaxImports, ext : Exts]
\* maps/<stem>[_<n>]_fog.png
FogPaths == [stem : Stems, n : 0 .. MaxImports]

\* models.py Map.create: fog_path = image_path.rsplit(".", 1)[0] + "_fog.png"
FogPathOf(img) == [stem |-> img.stem, n |-> img.n]

\* _get_player_ppmm: pixels per mm of the player monitor (width / width_mm)
PlayerPpmm == <<1, 1>>

TOOL_BRUSH == "brush"
TOOL_RECT == "rect"

\* The whole program state as one record, so that a handler is a function
\* from worlds to worlds and nested calls compose.
World == [app |-> app, disk |-> disk, dm |-> dm, pv |-> pv, env |-> env, obs |-> obs]

Commit(W) ==
    /\ app' = W.app
    /\ disk' = W.disk
    /\ dm' = W.dm
    /\ pv' = W.pv
    /\ env' = W.env
    /\ obs' = W.obs

(***************************************************************************)
(* models.py: Session                                                      *)
(***************************************************************************)
\* Session.active_map (None without a session: Application.get_active_map)
active_map(W) ==
    IF W.app.has /\ 0 <= W.app.active_map_index
                 /\ W.app.active_map_index < Len(W.app.maps)
    THEN Some(W.app.maps[W.app.active_map_index + 1])
    ELSE None

\* the 0-based index of the map with this id, or -1
IndexOfId(maps, id) ==
    IF \E i \in 1 .. Len(maps) : maps[i].id = id
    THEN (CHOOSE i \in 1 .. Len(maps) :
            maps[i].id = id /\ \A j \in 1 .. i - 1 : maps[j].id # id) - 1
    ELSE -1

RemoveAt(s, i) == [k \in 1 .. Len(s) - 1 |-> IF k < i THEN s[k] ELSE s[k + 1]]

\* Session.remove_map(map_id)
session_remove_map(W, id) ==
    LET i == IndexOfId(W.app.maps, id)
        rest == RemoveAt(W.app.maps, i + 1)
    IN  IF i < 0 THEN W
        ELSE [W EXCEPT !.app.maps = rest,
                       !.app.active_map_index =
                           IF @ >= Len(rest) THEN Max(0, Len(rest) - 1) ELSE @]

\* Session.set_active_map(map_id)
session_set_active_map(W, id) ==
    LET i == IndexOfId(W.app.maps, id)
    IN  IF i < 0 THEN W ELSE [W EXCEPT !.app.active_map_index = i]

(***************************************************************************)
(* map_canvas.py: MapRenderer.  A renderer is the record of its fields     *)
(* map_image, fog_mask, scale, cached_render, cache_valid (a view's record *)
(* holds them beside the view's own fields).                               *)
(***************************************************************************)
\* MapRenderer.set_map
renderer_set_map(r, img, fog) ==
    [r EXCEPT !.map_image = Some(img), !.fog_mask = Some(fog), !.cache_valid = FALSE]

\* MapRenderer.set_scale
renderer_set_scale(r, scale) ==
    IF ~RatEq(r.scale, scale) THEN [r EXCEPT !.scale = scale, !.cache_valid = FALSE] ELSE r

\* MapRenderer.invalidate_cache
invalidate_cache(r) == [r EXCEPT !.cache_valid = FALSE]

(***************************************************************************)
(* map_canvas.py: MapRenderer.render.  The bitmap is a pure function of    *)
(* the surface, the mask, the scale and the crop; the model keeps those.   *)
(* render reads and writes neither cached_render nor cache_valid.          *)
(***************************************************************************)
render(r, vw, vh, pan_x, pan_y, is_dm_view) ==
    IF IsNone(r.map_image) \/ IsNone(r.fog_mask) THEN None
    ELSE
    LET scaled_w == IntMul(Get(r.map_image)[1], r.scale)
        scaled_h == IntMul(Get(r.map_image)[2], r.scale)
        left0 == IntMul(pan_x, r.scale)
        top0 == IntMul(pan_y, r.scale)
        right == Min(left0 + vw, scaled_w)
        bottom == Min(top0 + vh, scaled_h)
        left == Max(0, Min(left0, scaled_w - 1))
        top == Max(0, Min(top0, scaled_h - 1))
    IN  IF right <= left \/ bottom <= top THEN None
        ELSE Some([surface |-> Get(r.map_image),
                   fog |-> Get(r.fog_mask),
                   scale |-> r.scale,
                   crop |-> <<IF scaled_w < vw THEN 0 ELSE left,
                              IF scaled_h < vh THEN 0 ELSE top,
                              IF scaled_w < vw THEN scaled_w ELSE right,
                              IF scaled_h < vh THEN scaled_h ELSE bottom>>,
                   opacity |-> IF is_dm_view THEN 120 ELSE 255])

\* render raises instead of returning: Image.resize refuses a width or height
\* below 1 (ValueError), and so does Image.new for the final image when the
\* crop is not empty and the viewport width or height is negative
render_raises(r, vw, vh, pan_x, pan_y) ==
    /\ IsSome(r.map_image) /\ IsSome(r.fog_mask)
    /\ \/ IntMul(Get(r.map_image)[1], r.scale) < 1
       \/ IntMul(Get(r.map_image)[2], r.scale) < 1
       \/ /\ IsSome(render(r, vw, vh, pan_x, pan_y, FALSE))
          /\ (vw < 0 \/ vh < 0)

\* Image.resize(..., Image.NEAREST): the source index of scaled index x is
\* floor((x + 0.5) * size / scaled)
nearest(x, scaled, size) == ((2 * x + 1) * size) \div (2 * scaled)

alpha_point_uninverted(p, fog_opacity) == (p * fog_opacity) \div 255

\* ImageOps.invert, then point(lambda p: int(p * fog_opacity / 255)): the
\* alpha of the fog layer over a mask pixel of value p
alpha_point(p, fog_opacity) == ((255 - p) * fog_opacity) \div 255

\* the pixels of the scaled surface of a rendered image
ScaledPixels(image) ==
    Pixels(IntMul(image.surface[1], image.scale), IntMul(image.surface[2], image.scale))

\* the alpha of the fog layer (black, alpha_mask put as its alpha) at a pixel
\* of the scaled surface
fog_alpha(image, xy) ==
    alpha_point(image.fog.px[<<nearest(xy[1], IntMul(image.surface[1], image.scale),
                                       image.fog.w),
                               nearest(xy[2], IntMul(image.surface[2], image.scale),
                                       image.fog.h)>>],
                image.opacity)

\* Image.alpha_composite(scaled_map, fog_rgba) at a pixel: black where the fog
\* layer is opaque, the surface's own pixel where it is transparent, a blend
\* of the two in between
composited(image, xy) ==
    IF fog_alpha(image, xy) = 255 THEN "occluder"
    ELSE IF fog_alpha(image, xy) = 0 THEN "surface"
    ELSE "blend"

(***************************************************************************)
(* player_view.py: PlayerView                                              *)
(***************************************************************************)
pv_refresh(W) ==
    IF IsNone(W.pv.map_image) THEN W
    ELSE IF W.pv.w <= 1 \/ W.pv.h <= 1 THEN W
    ELSE LET am == active_map(W)
             pan_x == IF IsSome(am) THEN Get(am).pan_x ELSE 0
             pan_y == IF IsSome(am) THEN Get(am).pan_y ELSE 0
         IN  [W EXCEPT !.pv.current_image =
                           render(W.pv, W.pv.w, W.pv.h, pan_x, pan_y, FALSE)]

pv_set_map(W, img, fog) ==
    pv_refresh([W EXCEPT !.pv = renderer_set_map(@, img, fog)])

pv_set_scale(W, scale) == pv_refresh([W EXCEPT !.pv = renderer_set_scale(@, scale)])

pv_update_fog(W, fog) ==
    LET W1 == [W EXCEPT !.obs.pushes = Min(@ + 1, MaxSamples + 4)]
    IN  IF IsSome(W1.pv.map_image)
        THEN pv_refresh([W1 EXCEPT !.pv = invalidate_cache([@ EXCEPT !.fog_mask = Some(fog)])])
        ELSE W1

(***************************************************************************)
(* dm_view.py: DMView.set_map / update_fog / refresh                       *)
(***************************************************************************)
\* min(width / map_w, height / map_h) * 0.95
fit_scale(width, height, map_w, map_h) ==
    LET m == RatMin(<<width, map_w>>, <<height, map_h>>)
    IN  <<m[1] * 19, m[2] * 20>>

\* the dashed rectangle showing the player's viewport on the preview
overlay_rect(W, scale, off) ==
    LET am == active_map(W)
    IN  IF W.pv.w > 1 /\ W.pv.h > 1 /\ IsSome(am) /\ W.pv.scale[1] # 0
        THEN LET vis_map_w == IntDiv(W.pv.w, W.pv.scale)
                 vis_map_h == IntDiv(W.pv.h, W.pv.scale)
                 p1 == map_to_screen(Get(am).pan_x, Get(am).pan_y, scale, 0, 0, off)
                 p2 == map_to_screen(Get(am).pan_x + vis_map_w,
                                     Get(am).pan_y + vis_map_h, scale, 0, 0, off)
             IN  Some(<<p1[1], p1[2], p2[1], p2[2]>>)
        ELSE None

dm_refresh(W) ==
    IF IsNone(W.dm.map_image) THEN W
    ELSE IF W.dm.w <= 1 \/ W.dm.h <= 1 THEN W
    ELSE LET map_w == Get(W.dm.map_image)[1]
             map_h == Get(W.dm.map_image)[2]
             fit == fit_scale(W.dm.w, W.dm.h, map_w, map_h)
             off == <<(W.dm.w - IntMul(map_w, fit)) \div 2,
                      (W.dm.h - IntMul(map_h, fit)) \div 2>>
             W1 == [W EXCEPT !.dm = renderer_set_scale(@, fit), !.dm.offset = off]
             image == render(W1.dm, W.dm.w, W.dm.h, 0, 0, TRUE)
         IN  [W1 EXCEPT !.dm.current_image = image,
                        !.dm.overlay = IF IsSome(image)
                                       THEN overlay_rect(W1, fit, off) ELSE @]

dm_set_map(W, img, fog) ==
    dm_refresh([W EXCEPT !.dm = renderer_set_map(@, img, fog)])

dm_update_fog_skip(W, fog) == W

dm_update_fog(W, fog) ==
    IF IsSome(W.dm.map_image)
    THEN dm_refresh([W EXCEPT !.dm = invalidate_cache([@ EXCEPT !.fog_mask = Some(fog)])])
    ELSE W

(***************************************************************************)
(* persistence.py: SessionManager (the files of the session directory)     *)
(***************************************************************************)
\* save_session: json.dump(session.to_dict())
sm_save_session(W) ==
    [W EXCEPT !.disk.session =
        Some([maps |-> W.app.maps, active_map_index |-> W.app.active_map_index])]

sm_save_fog_mask_lost(W, map_obj, fog) == W

\* save_fog_mask: fog.save(path)
sm_save_fog_mask(W, map_obj, fog) ==
    [W EXCEPT !.disk.fog[map_obj.fog_path] = Some(fog),
              !.obs.saves = Min(@ + 1, MaxSamples + 4)]

\* load_map_image / load_fog_mask: the file, or None when the path does not exist
sm_load_map_image(W, map_obj) == W.disk.img[map_obj.image_path]
sm_load_fog_mask(W, map_obj) == W.disk.fog[map_obj.fog_path]

\* delete_map: unlink the image and the fog mask when they exist
sm_delete_map(W, map_obj) ==
    [W EXCEPT !.disk.img[map_obj.image_path] = None,
              !.disk.fog[map_obj.fog_path] = None]

\* add_map_from_file: the first free name among stem.ext, stem_1.ext, ...
DestPath(W, src) ==
    LET free == {k \in 0 .. MaxImports :
                    IsNone(W.disk.img[[stem |-> src.stem, n |-> k, ext |-> src.ext]])}
        k0 == CHOOSE k \in free : \A j \in free : k <= j
    IN  [stem |-> src.stem, n |-> k0, ext |-> src.ext]

\* add_map_from_file: copy the image, Map.create, create_fog_mask (all black)
sm_add_map_from_file(W, src, tile_pixels, tile_size_mm) ==
    LET dest == DestPath(W, src)
    IN  [W EXCEPT !.app.nextId = @ + 1,
                  !.disk.img[dest] = Some(<<src.w, src.h>>),
                  !.disk.fog[FogPathOf(dest)] = Some(NewMask(src.w, src.h, 0))]

\* the Map that sm_add_map_from_file returns
NewMapObj(W, src, tile_pixels, tile_size_mm) ==
    [id |-> W.app.nextId,
     image_path |-> DestPath(W, src),
     fog_path |-> FogPathOf(DestPath(W, src)),
     tile_size_mm |-> tile_size_mm,
     tile_pixels |-> tile_pixels,
     pan_x |-> 0,
     pan_y |-> 0]

(***************************************************************************)
(* app.py: Application                                                     *)
(***************************************************************************)
NoImages == [i \in Ids |-> None]

\* get_current_fog: a copy of the active map's mask, or None
get_current_fog(W) ==
    LET am == active_map(W)
    IN  IF IsSome(am) /\ IsSome(W.app.fog_masks[Get(am).id])
        THEN W.app.fog_masks[Get(am).id]
        ELSE None

\* _load_map_images: clear both caches, then load what exists for every map
RECURSIVE load_each(_, _)
load_each(W, i) ==
    IF i > Len(W.app.maps) THEN W
    ELSE LET m == W.app.maps[i]
             img == sm_load_map_image(W, m)
             fog == sm_load_fog_mask(W, m)
         IN  load_each([W EXCEPT !.app.map_images[m.id] = IF IsSome(img) THEN img ELSE @,
                                 !.app.fog_masks[m.id] = IF IsSome(fog) THEN fog ELSE @],
                       i + 1)

load_map_images(W) ==
    IF ~W.app.has THEN W
    ELSE load_each([W EXCEPT !.app.map_images = NoImages,
                             !.app.fog_masks = NoImages,
                             !.dm.alias = {}], 1)

\* _update_views: hand the active map to both views when its image and mask exist
update_views(W) ==
    IF ~W.app.has THEN W
    ELSE LET am == active_map(W)
         IN  IF IsSome(am) /\ IsSome(W.app.map_images[Get(am).id])
                /\ IsSome(W.app.fog_masks[Get(am).id])
             THEN LET map_img == Get(W.app.map_images[Get(am).id])
                      fog_img == Get(W.app.fog_masks[Get(am).id])
                      scale == calculate_scale(Get(am).tile_pixels,
                                               Get(am).tile_size_mm, PlayerPpmm)
                  IN  pv_set_scale(pv_set_map(dm_set_map(W, map_img, fog_img),
                                              map_img, fog_img), scale)
             ELSE W

\* _try_load_session: session.json read back, then the caches and the views
try_load_session(W) ==
    IF IsNone(W.disk.session) THEN W
    ELSE update_views(load_map_images(
            [W EXCEPT !.app.has = TRUE,
                      !.app.maps = Get(W.disk.session).maps,
                      !.app.active_map_index = Get(W.disk.session).active_map_index]))

\* new_session: an empty session, saved; both caches cleared
new_session(W) ==
    update_views(sm_save_session(
        [W EXCEPT !.app.has = TRUE,
                  !.app.maps = <<>>,
                  !.app.active_map_index = 0,
                  !.app.map_images = NoImages,
                  !.app.fog_masks = NoImages,
                  !.dm.alias = {}]))

\* save_session: session.json, then every cached mask of the session's maps
RECURSIVE save_each(_, _)
save_each(W, i) ==
    IF i > Len(W.app.maps) THEN W
    ELSE LET m == W.app.maps[i]
         IN  save_each(IF IsSome(W.app.fog_masks[m.id])
                       THEN sm_save_fog_mask(W, m, Get(W.app.fog_masks[m.id]))
                       ELSE W, i + 1)

save_session_fog_only(W) == IF ~W.app.has THEN W ELSE save_each(W, 1)

save_session(W) == IF ~W.app.has THEN W ELSE save_each(sm_save_session(W), 1)

\* add_map with tile_pixels and tile_size_mm given (the import dialog's path)
add_map(W, src, tile_pixels, tile_size_mm) ==
    IF ~W.app.has THEN W
    ELSE LET map_obj == NewMapObj(W, src, tile_pixels, tile_size_mm)
             W1 == sm_add_map_from_file(W, src, tile_pixels, tile_size_mm)
             W2 == sm_save_session([W1 EXCEPT !.app.maps = Append(@, map_obj)])
             img == sm_load_map_image(W2, map_obj)
             fog == sm_load_fog_mask(W2, map_obj)
             W3 == [W2 EXCEPT !.app.map_images[map_obj.id] = IF IsSome(img) THEN img ELSE @,
                              !.app.fog_masks[map_obj.id] = IF IsSome(fog) THEN fog ELSE @]
         IN  update_views(session_set_active_map(W3, map_obj.id))

\* remove_map(index)
remove_map(W, index) ==
    IF ~W.app.has THEN W
    ELSE IF 0 <= index /\ index < Len(W.app.maps)
    THEN LET map_obj == W.app.maps[index + 1]
             W1 == [W EXCEPT !.app.map_images[map_obj.id] = None,
                             !.app.fog_masks[map_obj.id] = None,
                             !.dm.alias = @ \ {map_obj.id}]
         IN  update_views(sm_save_session(
                 session_remove_map(sm_delete_map(W1, map_obj), map_obj.id)))
    ELSE W

\* select_map(index)
select_map(W, index) ==
    IF ~W.app.has THEN W
    ELSE IF 0 <= index /\ index < Len(W.app.maps)
    THEN update_views([W EXCEPT !.app.active_map_index = index])
    ELSE W

\* update_fog(fog_mask): cache it for the active map, hand it to both views, save it.
\* shared: the cache entry is the caller's own image object (no copy), so the
\* caller's later drawing on it shows in the cache (dm.alias).
update_fog(W, fog_mask, shared) ==
    LET am == active_map(W)
    IN  IF IsNone(am) THEN W
        ELSE LET id == Get(am).id
                 W1 == [W EXCEPT !.app.fog_masks[id] = Some(fog_mask),
                                 !.dm.alias = IF shared THEN @ \cup {id} ELSE @ \ {id}]
             IN  sm_save_fog_mask(pv_update_fog(dm_update_fog(W1, fog_mask), fog_mask),
                                  Get(am), fog_mask)

\* reveal_all / hide_all: edit a copy of the current mask, then update_fog
app_reveal_all(W) ==
    LET fog == get_current_fog(W)
    IN  IF IsSome(fog) THEN update_fog(W, reveal_all(Get(fog)), FALSE) ELSE W

app_hide_all(W) ==
    LET fog == get_current_fog(W)
    IN  IF IsSome(fog) THEN update_fog(W, hide_all(Get(fog)), FALSE) ELSE W

viewport_map_unguarded(W, img) ==
    <<IntDiv(W.pv.w, W.pv.scale), IntDiv(W.pv.h, W.pv.scale)>>

\* the width and height of the player's viewport in map pixels, as pan_map takes them
viewport_map(W, img) ==
    IF W.pv.w > 1 /\ W.pv.h > 1 /\ RatPos(W.pv.scale)
    THEN <<IntDiv(W.pv.w, W.pv.scale), IntDiv(W.pv.h, W.pv.scale)>>
    ELSE img

Clamp_low(v, hi) == Max(0, v)

\* max(0, min(v, hi))
Clamp(v, hi) == Max(0, Min(v, hi))

\* pan_map(dx, dy)
pan_map(W, dx, dy) ==
    LET am == active_map(W)
    IN  IF IsNone(am) THEN W
        ELSE LET i == W.app.active_map_index + 1
                 x == Get(am).pan_x + dx
                 y == Get(am).pan_y + dy
                 img == W.app.map_images[Get(am).id]
                 vm == viewport_map(W, Get(img))
                 max_pan_x == Max(0, Get(img)[1] - vm[1])
                 max_pan_y == Max(0, Get(img)[2] - vm[2])
                 W1 == IF IsSome(img)
                       THEN [W EXCEPT !.app.maps[i].pan_x = Clamp(x, max_pan_x),
                                      !.app.maps[i].pan_y = Clamp(y, max_pan_y)]
                       ELSE [W EXCEPT !.app.maps[i].pan_x = x,
                                      !.app.maps[i].pan_y = y]
             IN  dm_refresh(pv_refresh(W1))

(***************************************************************************)
(* The three Application methods that DMView calls and app.py does not     *)
(* define: get_current_fog_ref, begin_fog_edit, end_fog_edit.              *)
(***************************************************************************)
\* get_current_fog_ref: the cached mask of the active map itself, or None
get_current_fog_ref(W) ==
    LET am == active_map(W)
    IN  IF IsSome(am) THEN W.app.fog_masks[Get(am).id] ELSE None

\* begin_fog_edit: a fog edit transaction begins
begin_fog_edit(W) ==
    [W EXCEPT !.app.editing = TRUE,
              !.obs.overlap = @ \/ W.app.editing]

\* end_fog_edit: the transaction ends; the mask goes to the player view and to disk
end_fog_edit(W) ==
    LET am == active_map(W)
        W1 == [W EXCEPT !.app.editing = FALSE]
    IN  IF IsSome(am) /\ IsSome(W.app.fog_masks[Get(am).id])
        THEN sm_save_fog_mask(
                 pv_update_fog(W1, Get(W.app.fog_masks[Get(am).id])),
                 Get(am), Get(W.app.fog_masks[Get(am).id]))
        ELSE W1

(***************************************************************************)
(* dm_view.py: the tools                                                   *)
(***************************************************************************)
\* _set_tool
set_tool(W, tool) == [W EXCEPT !.dm.current_tool = tool]

\* _on_mode_change
on_mode_change(W, reveal) == [W EXCEPT !.dm.reveal_mode = reveal]

screen_to_map_coords_panned(W, sx, sy) ==
    IF IsNone(active_map(W)) THEN <<0, 0>>
    ELSE screen_to_map(sx, sy, W.dm.scale, Get(active_map(W)).pan_x,
                       Get(active_map(W)).pan_y, W.dm.offset)

\* _screen_to_map_coords: the preview shows the whole map, pan 0
screen_to_map_coords(W, sx, sy) ==
    IF IsNone(active_map(W)) THEN <<0, 0>>
    ELSE screen_to_map(sx, sy, W.dm.scale, 0, 0, W.dm.offset)

\* max(1, int(brush_size / max(0.0001, scale)))
brush_radius(W) == Max(1, IntDiv(W.dm.brush_size, W.dm.scale))

\* the editor's drawing lands in every cache entry that is the editor's own image
Draw(W, mask) ==
    [W EXCEPT !.dm.brush_editor = Some(mask),
              !.app.fog_masks = [i \in Ids |->
                  IF i \in W.dm.alias THEN Some(mask) ELSE @[i]]]

\* _start_brush
start_brush(W, sx, sy) ==
    LET fog == get_current_fog_ref(W)
    IN  IF IsNone(fog) THEN W
        ELSE LET pos == screen_to_map_coords(W, sx, sy)
                 W1 == begin_fog_edit(W)
                 ed == apply_brush(Get(fog), pos[1], pos[2], brush_radius(W),
                                   W.dm.reveal_mode)
                 W2 == [W1 EXCEPT !.dm.brush_editor = Some(ed),
                                  !.dm.brush_last_map_pos = Some(pos),
                                  !.dm.alias = {},
                                  !.obs.stroke = "open",
                                  !.obs.stamps = <<pos>>,
                                  !.obs.origin = Some(Get(active_map(W)).id)]
             IN  update_fog(W2, ed, TRUE)

StepsOf_single(dx, dy, step) == 1

\* int(dist / step) with dist = hypot(dx, dy): the largest k with (k * step)^2 <= dx^2 + dy^2
StepsOf(dx, dy, step) ==
    LET d2 == dx * dx + dy * dy
        k == CHOOSE k \in 0 .. d2 :
                 /\ k * step * k * step <= d2
                 /\ (k + 1) * step * (k + 1) * step > d2
    IN  Max(1, k)

StampCentres_halfway(last, dx, dy, steps) ==
    [i \in 1 .. steps |-> <<Trunc(last[1] * (steps + 1) + dx * i, steps + 1),
                            Trunc(last[2] * (steps + 1) + dy * i, steps + 1)>>]

\* for i in range(1, steps + 1): t = i / steps; ix = int(last_x + dx * t);
\* iy = int(last_y + dy * t)
StampCentres(last, dx, dy, steps) ==
    [i \in 1 .. steps |-> <<Trunc(last[1] * steps + dx * i, steps),
                            Trunc(last[2] * steps + dy * i, steps)>>]

\* the stamps of one drag sample, in order
RECURSIVE Stamps(_, _, _, _, _, _, _, _)
Stamps(mask, last, dx, dy, steps, i, radius, reveal) ==
    IF i > steps THEN mask
    ELSE LET c == StampCentres(last, dx, dy, steps)[i]
         IN  Stamps(apply_brush(mask, c[1], c[2], radius, reveal),
                    last, dx, dy, steps, i + 1, radius, reveal)

\* _continue_brush
continue_brush(W, sx, sy) ==
    IF IsNone(W.dm.brush_editor) \/ IsNone(W.dm.brush_last_map_pos)
    THEN start_brush(W, sx, sy)
    ELSE LET pos == screen_to_map_coords(W, sx, sy)
             last == Get(W.dm.brush_last_map_pos)
             dx == pos[1] - last[1]
             dy == pos[2] - last[2]
             r == brush_radius(W)
             step == Max(1, r \div 2)
             ed == IF dx = 0 /\ dy = 0
                   THEN apply_brush(Get(W.dm.brush_editor), pos[1], pos[2], r,
                                    W.dm.reveal_mode)
                   ELSE Stamps(Get(W.dm.brush_editor), last, dx, dy,
                               StepsOf(dx, dy, step), 1, r, W.dm.reveal_mode)
             W1 == [Draw(W, ed) EXCEPT
                       !.dm.brush_last_map_pos = Some(pos),
                       !.obs.stamps = IF dx = 0 /\ dy = 0 THEN <<pos>>
                                      ELSE StampCentres(last, dx, dy,
                                                        StepsOf(dx, dy, step))]
         IN  update_fog(W1, ed, TRUE)

\* _end_brush
end_brush(W) ==
    IF IsNone(W.dm.brush_editor) THEN W
    ELSE LET W1 == end_fog_edit(update_fog(W, Get(W.dm.brush_editor), TRUE))
         IN  [W1 EXCEPT !.dm.brush_editor = None,
                        !.dm.brush_last_map_pos = None,
                        !.dm.alias = {},
                        !.obs.origin = None]

\* _apply_rect
apply_rect(W, sx, sy) ==
    LET fog == get_current_fog(W)
    IN  IF IsNone(fog) THEN W
        ELSE LET p1 == screen_to_map_coords(W, Get(W.dm.rect_start)[1],
                                            Get(W.dm.rect_start)[2])
                 p2 == screen_to_map_coords(W, sx, sy)
             IN  update_fog(W, apply_rectangle(Get(fog), p1[1], p1[2], p2[1], p2[2],
                                               W.dm.reveal_mode), FALSE)

\* _adjust_brush_size, with _on_brush_size_change
adjust_brush_size(W, delta) ==
    [W EXCEPT !.dm.brush_size = Max(5, Min(100, @ + delta))]

\* _on_canvas_click
on_canvas_click(W, sx, sy) ==
    IF W.dm.current_tool = TOOL_BRUSH THEN start_brush(W, sx, sy)
    ELSE IF W.dm.current_tool = TOOL_RECT
    THEN [W EXCEPT !.dm.rect_start = Some(<<sx, sy>>)]
    ELSE W

\* _on_canvas_drag (the rectangle tool only redraws its outline)
on_canvas_drag(W, sx, sy) ==
    IF W.dm.current_tool = TOOL_BRUSH THEN continue_brush(W, sx, sy) ELSE W

\* _on_canvas_release
on_canvas_release(W, sx, sy) ==
    LET W1 == IF W.dm.current_tool = TOOL_RECT /\ IsSome(W.dm.rect_start)
              THEN [apply_rect(W, sx, sy) EXCEPT !.dm.rect_start = None]
              ELSE W
        W2 == IF W1.dm.current_tool = TOOL_BRUSH THEN end_brush(W1) ELSE W1
    IN  save_session(W2)

(***************************************************************************)
(* dm_view.py: right-button drags on the preview and on the overlay        *)
(***************************************************************************)
\* the common body of _on_viewport_drag and _on_overlay_drag: the screen delta
\* since last, converted by the preview's scale, handed to pan_map
drag_pan(W, last, p) ==
    LET dx == p[1] - last[1]
        dy == p[2] - last[2]
        map_dx == IntDiv(dx, W.dm.scale)
        map_dy == IntDiv(dy, W.dm.scale)
        W1 == [W EXCEPT !.obs.arg = <<dx, dy>>]
    IN  IF ~RatPos(W.dm.scale) THEN W1
        ELSE IF map_dx # 0 \/ map_dy # 0
        THEN pan_map([W1 EXCEPT !.obs.outcome = "panned"], map_dx, map_dy)
        ELSE W1

\* _on_viewport_drag_start
on_viewport_drag_start(W, p) == [W EXCEPT !.dm.viewport_last_pos = Some(p)]

\* _on_viewport_drag
on_viewport_drag(W, p) ==
    IF W.dm.overlay_dragging THEN W
    ELSE IF IsNone(W.dm.viewport_last_pos)
    THEN [W EXCEPT !.dm.viewport_last_pos = Some(p)]
    ELSE LET W1 == drag_pan(W, Get(W.dm.viewport_last_pos), p)
         IN  IF W1.obs.outcome = "panned"
             THEN [W1 EXCEPT !.dm.viewport_last_pos = Some(p)]
             ELSE W1

\* _on_viewport_drag_end
on_viewport_drag_end(W) == save_session([W EXCEPT !.dm.viewport_last_pos = None])

\* _on_overlay_drag_start
on_overlay_drag_start(W, p) ==
    [W EXCEPT !.dm.overlay_dragging = TRUE, !.dm.overlay_drag_last = Some(p)]

\* _on_overlay_drag
on_overlay_drag(W, p) ==
    IF ~W.dm.overlay_dragging \/ IsNone(W.dm.overlay_drag_last)
    THEN [W EXCEPT !.dm.overlay_drag_last = Some(p)]
    ELSE LET W1 == drag_pan(W, Get(W.dm.overlay_drag_last), p)
         IN  IF W1.obs.outcome = "panned"
             THEN [W1 EXCEPT !.dm.overlay_drag_last = Some(p)]
             ELSE W1

\* _on_overlay_drag_end
on_overlay_drag_end(W) ==
    save_session([W EXCEPT !.dm.overlay_dragging = FALSE,
                           !.dm.overlay_drag_last = None])

(***************************************************************************)
(* The state after Application.__init__ with no last session, the two      *)
(* canvases laid out at the given sizes and config.brush_size = brush.     *)
(***************************************************************************)
Obs0 == [op |-> "init", arg |-> <<0, 0>>, pushes |-> 0, saves |-> 0,
         overlap |-> FALSE, stroke |-> "none", samples |-> 0, outcome |-> "none",
         ret |-> None, stamps |-> <<>>, origin |-> None]

W0(dmSize, pvSize, brush) ==
    [app |-> [has |-> FALSE, maps |-> <<>>, active_map_index |-> 0,
              map_images |-> NoImages, fog_masks |-> NoImages,
              nextId |-> 1, editing |-> FALSE],
     disk |-> [session |-> None,
               img |-> [q \in ImgPaths |-> None],
               fog |-> [q \in FogPaths |-> None]],
     dm |-> [map_image |-> None, fog_mask |-> None, scale |-> One,
             cached_render |-> None, cache_valid |-> FALSE,
             offset |-> <<0, 0>>, current_image |-> None, overlay |-> None,
             w |-> dmSize[1], h |-> dmSize[2],
             current_tool |-> TOOL_BRUSH, reveal_mode |-> TRUE, brush_size |-> brush,
             brush_editor |-> None, brush_last_map_pos |-> None,
             rect_start |-> None, alias |-> {},
             viewport_last_pos |-> None,
             overlay_dragging |-> FALSE, overlay_drag_last |-> None],
     pv |-> [map_image |-> None, fog_mask |-> None, scale |-> One,
             cached_render |-> None, cache_valid |-> FALSE,
             current_image |-> None, w |-> pvSize[1], h |-> pvSize[2]],
     env |-> [b1 |-> FALSE, b3 |-> FALSE, grab |-> "none"],
     obs |-> Obs0]

\* the program in the state W, nothing observed yet
InitFrom(W) ==
    /\ app = W.app
    /\ disk = W.disk
    /\ dm = W.dm
    /\ pv = W.pv
    /\ env = W.env
    /\ obs = Obs0

(***************************************************************************)
(* The handlers as actions.  A widget that needs a click (a toolbar or     *)
(* sidebar button, a dialog) is only reachable while button 1 is up; keys  *)
(* arrive at any time.                                                     *)
(***************************************************************************)
\* the world as a handler other than a stroke's finds it
Enter(op) ==
    [World EXCEPT !.obs.op = op, !.obs.arg = <<0, 0>>, !.obs.pushes = 0,
                  !.obs.saves = 0, !.obs.stroke = "none", !.obs.samples = 0,
                  !.obs.outcome = "none", !.obs.ret = None,
                  !.obs.stamps = <<>>]

NewSession ==
    /\ ~env.b1 /\ ~app.has
    /\ Commit(new_session(Enter("new_session")))

OpenSession ==
    /\ ~env.b1 /\ IsSome(disk.session)
    /\ Commit(try_load_session(Enter("open_session")))

SaveSession ==
    /\ app.has
    /\ Commit(save_session(Enter("save_session")))

AddMap(src, tile_pixels, tile_size_mm) ==
    /\ ~env.b1 /\ app.has
    /\ Len(app.maps) < MaxMaps /\ app.nextId <= MaxImports
    /\ Commit(add_map(Enter("add_map"), src, tile_pixels, tile_size_mm))

RemoveMap(index) ==
    /\ ~env.b1 /\ app.has
    /\ index < Len(app.maps)
    /\ Commit(remove_map(Enter("remove_map"), index))

SelectMap(index) ==
    /\ app.has
    /\ index < Len(app.maps)
    /\ Commit(select_map(Enter("select_map"), index))

SetTool(tool) ==
    /\ tool # dm.current_tool
    /\ Commit(set_tool(Enter("set_tool"), tool))

ModeChange(reveal) ==
    /\ reveal # dm.reveal_mode
    /\ Commit(on_mode_change(Enter("mode_change"), reveal))

RevealAll ==
    /\ ~env.b1
    /\ Commit(app_reveal_all(Enter("reveal_all")))

HideAll ==
    /\ ~env.b1
    /\ Commit(app_hide_all(Enter("hide_all")))

\* pan_map, as a right-button drag on the preview calls it
PanMap(dx, dy) ==
    Commit(pan_map([Enter("pan_map") EXCEPT !.obs.arg = <<dx, dy>>], dx, dy))

\* <Configure> on the player canvas: _on_resize
PlayerResize(w, h) ==
    /\ <<w, h>> # <<pv.w, pv.h>>
    /\ Commit(pv_refresh([Enter("pv_resize") EXCEPT !.pv.w = w, !.pv.h = h]))

\* <Configure> on the preview canvas: _on_canvas_resize
DmResize(w, h) ==
    /\ <<w, h>> # <<dm.w, dm.h>>
    /\ Commit(dm_refresh([Enter("dm_resize") EXCEPT !.dm.w = w, !.dm.h = h]))

\* <Button-1> on the preview canvas
Press(sx, sy) ==
    /\ ~env.b1
    /\ Commit(on_canvas_click([Enter("press") EXCEPT !.env.b1 = TRUE,
                                                      !.obs.arg = <<sx, sy>>], sx, sy))

\* the keys [ and ], bound on the root window
AdjustBrushSize(delta) ==
    /\ Max(5, Min(100, dm.brush_size + delta)) <= MaxBrush
    /\ Commit(adjust_brush_size(Enter("brush_size"), delta))

\* <B1-Motion>
Drag(sx, sy) ==
    /\ env.b1
    /\ Commit(on_canvas_drag(
           [World EXCEPT !.obs.op = "drag", !.obs.stamps = <<>>,
                         !.obs.samples = Min(@ + 1, MaxSamples)], sx, sy))

\* <ButtonRelease-1>
Release(sx, sy) ==
    /\ env.b1
    /\ Commit(on_canvas_release(
           [World EXCEPT !.env.b1 = FALSE, !.obs.op = "release",
                         !.obs.stamps = <<>>,
                         !.obs.stroke = IF @ = "open" /\ dm.current_tool = TOOL_BRUSH
                                        THEN "done" ELSE "none"], sx, sy))

\* the pointer is on the outline of the overlay rectangle (an unfilled canvas
\* item is hit on its outline only)
OnOverlay(p) ==
    /\ IsSome(dm.overlay)
    /\ LET o == Get(dm.overlay)
       IN  /\ o[1] <= p[1] /\ p[1] <= o[3] /\ o[2] <= p[2] /\ p[2] <= o[4]
           /\ p[1] \in {o[1], o[3]} \/ p[2] \in {o[2], o[4]}

\* <Button-3> on the preview canvas: the overlay item's binding when the
\* pointer is on it, then the canvas's
RPress(p) ==
    /\ ~env.b3
    /\ LET W == [Enter("rpress") EXCEPT
                    !.env.b3 = TRUE,
                    !.env.grab = IF OnOverlay(p) THEN "item" ELSE "none"]
       IN  Commit(on_viewport_drag_start(
                      IF OnOverlay(p) THEN on_overlay_drag_start(W, p) ELSE W, p))

\* <B3-Motion>: the item's binding, then the canvas's.  item: the binding of
\* the overlay item is delivered.  It is while the item pressed on exists;
\* once a refresh has deleted and redrawn the overlay during the drag
\* (grab = "stale") Tk may or may not deliver it.
RDrag(p, item) ==
    /\ env.b3
    /\ item => env.grab # "none"
    /\ env.grab = "item" => item
    /\ LET W == Enter("rdrag")
           W1 == on_viewport_drag(IF item THEN on_overlay_drag(W, p) ELSE W, p)
       IN  Commit([W1 EXCEPT !.env.grab =
                      IF @ = "item" /\ W1.obs.outcome = "panned" THEN "stale" ELSE @])

\* <ButtonRelease-3>: the item's binding (as for the motion), then the canvas's
RRelease(p, item) ==
    /\ env.b3
    /\ item => env.grab # "none"
    /\ env.grab = "item" => item
    /\ LET W == [Enter("rrelease") EXCEPT
                    !.env.b3 = FALSE, !.env.grab = "none",
                    !.obs.outcome = IF env.grab = "none" THEN "preview" ELSE "overlay"]
       IN  Commit(on_viewport_drag_end(IF item THEN on_overlay_drag_end(W) ELSE W))

(***************************************************************************)
(* Inputs of the specifications.                                           *)
(***************************************************************************)
TileMm == <<2, 1>>
\* image files the operator can import: name and pixel size
FileA == [stem |-> "a", ext |-> "png", w |-> 2, h |-> 2]
FileA2 == [stem |-> "a", ext |-> "jpg", w |-> 3, h |-> 2]
SrcFiles == {FileA, FileA2}
\* pointer positions on the 20 x 20 preview canvas
ScreenPts == {<<1, 5>>, <<15, 15>>}
DmSize == <<20, 20>>

(***************************************************************************)
(* Spec: the session's life on disk and in memory: new, open, save,        *)
(* import, remove, select, reveal all, hide all.                           *)
(***************************************************************************)
Init == InitFrom(W0(DmSize, <<2, 2>>, 30))

Next ==
    \/ NewSession
    \/ OpenSession
    \/ SaveSession
    \/ \E src \in SrcFiles : AddMap(src, 1, TileMm)
    \/ \E i \in 0 .. MaxMaps - 1 : RemoveMap(i)
    \/ \E i \in 0 .. MaxMaps - 1 : SelectMap(i)
    \/ RevealAll
    \/ HideAll

Spec == Init /\ [][Next]_vars

\* the maps of the session whose surface and mask are both cached
Loaded == {i \in 1 .. Len(app.maps) :
              /\ IsSome(app.map_images[app.maps[i].id])
              /\ IsSome(app.fog_masks[app.maps[i].id])}

\* C7: in every reachable state the fog mask of every map of the session has
\* the pixel dimensions of that map's surface.
C7_MaskDimsEqualSurface ==
    \A i \in Loaded :
        Dims(Get(app.fog_masks[app.maps[i].id])) = Get(app.map_images[app.maps[i].id])

\* a view shows a composite of a surface and a mask of other dimensions
Misaligned(view) ==
    /\ IsSome(view.current_image)
    /\ Dims(Get(view.current_image).fog) # Get(view.current_image).surface

\* a view holds a surface together with a mask of other dimensions
Mismatched(view) ==
    /\ IsSome(view.map_image) /\ IsSome(view.fog_mask)
    /\ Dims(Get(view.fog_mask)) # Get(view.map_image)

\* C8: a mask loaded with dimensions other than its surface's is replaced by
\* an all-hidden mask of the surface's dimensions before it is used: neither
\* view is ever handed, or ever renders, a mask that does not fit its surface.
C8_MismatchRepaired ==
    /\ ~Mismatched(dm) /\ ~Misaligned(dm)
    /\ ~Mismatched(pv) /\ ~Misaligned(pv)

\* C9: after a load, a map whose fog bitmap is absent has an all-hidden mask
\* of its surface's dimensions, and when it is the active map both views
\* display it with that mask.
C9_AbsentFogAllHidden ==
    obs.op = "open_session" =>
        \A i \in 1 .. Len(app.maps) :
            LET m == app.maps[i]
                img == app.map_images[m.id]
            IN  (IsSome(img) /\ IsNone(disk.fog[m.fog_path])) =>
                  /\ app.fog_masks[m.id] = Some(NewMask(Get(img)[1], Get(img)[2], 0))
                  /\ (i = app.active_map_index + 1) =>
                        /\ dm.map_image = img /\ dm.fog_mask = app.fog_masks[m.id]
                        /\ pv.map_image = img /\ pv.fog_mask = app.fog_masks[m.id]

(***************************************************************************)
(* SpecEdit: the fog tools on one imported map (2 x 2 or 3 x 2), brush     *)
(* size 5 (radius 1 in map pixels at the preview's scale).                 *)
(***************************************************************************)
WLoaded(src, pvSize, brush) ==
    add_map(new_session(W0(DmSize, pvSize, brush)), src, 1, TileMm)

InitEdit == \E src \in SrcFiles : InitFrom(WLoaded(src, <<2, 2>>, 5))

NextEdit ==
    \/ \E t \in {TOOL_BRUSH, TOOL_RECT} : SetTool(t)
    \/ \E r \in BOOLEAN : ModeChange(r)
    \/ RevealAll
    \/ HideAll
    \/ \E p \in ScreenPts : Press(p[1], p[2])
    \/ \E p \in ScreenPts : Drag(p[1], p[2])
    \/ \E p \in ScreenPts : Release(p[1], p[2])

SpecEdit == InitEdit /\ [][NextEdit]_vars

\* C1: within a brush stroke no press or drag pushes the mask to the player
\* view or writes it to disk, and when the stroke has ended the mask has been
\* pushed exactly once and written exactly once.
C1_PropagateOncePerStroke ==
    /\ obs.stroke = "open" => (obs.pushes = 0 /\ obs.saves = 0)
    /\ obs.stroke = "done" => (obs.pushes = 1 /\ obs.saves = 1)

\* C2: a fog edit transaction is never begun while one begun earlier has not
\* ended.
C2_OneTransaction == ~obs.overlap

BinaryMask(m) == \A p \in Pixels(m.w, m.h) : m.px[p] \in {0, 255}

\* C10: starting from the all-hidden mask of the import, after any sequence of
\* brush, rectangle, reveal-all and hide-all edits every pixel of the mask, in
\* memory and on disk, is 0 or 255.
C10_MaskBinary ==
    /\ \A i \in Ids : IsSome(app.fog_masks[i]) => BinaryMask(Get(app.fog_masks[i]))
    /\ \A q \in FogPaths : IsSome(disk.fog[q]) => BinaryMask(Get(disk.fog[q]))
    /\ IsSome(dm.brush_editor) => BinaryMask(Get(dm.brush_editor))

\* a hiding rectangle (one update_fog since the press) has left a mask with
\* hidden and revealed pixels
C10_Witness ==
    /\ obs.op = "release" /\ dm.current_tool = TOOL_RECT /\ ~dm.reveal_mode
    /\ obs.pushes = 1
    /\ \E i \in Ids :
         /\ IsSome(app.fog_masks[i])
         /\ \E p, q \in Pixels(Get(app.fog_masks[i]).w, Get(app.fog_masks[i]).h) :
              /\ Get(app.fog_masks[i]).px[p] = 0
              /\ Get(app.fog_masks[i]).px[q] = 255

(***************************************************************************)
(* SpecPan: panning two imported maps (3 x 2 at player scale 2, 2 x 3 at   *)
(* player scale 1) while the player canvas changes size, the operator      *)
(* selects maps, and the session is saved and opened again.                *)
(***************************************************************************)
FileP == [stem |-> "a", ext |-> "png", w |-> 3, h |-> 2]
FileP2 == [stem |-> "b", ext |-> "png", w |-> 2, h |-> 3]
\* sizes of the player canvas: 1 x 1 before it is laid out
PvSizes == {<<1, 1>>, <<3, 2>>, <<2, 4>>}
Deltas == {-BigDelta, 0, 1, BigDelta}

WPan == add_map(add_map(new_session(W0(DmSize, <<3, 2>>, 30)), FileP, 1, TileMm),
                FileP2, 2, TileMm)

InitPan == InitFrom(WPan)

NextPan ==
    \/ \E dx, dy \in Deltas : PanMap(dx, dy)
    \/ \E s \in PvSizes : PlayerResize(s[1], s[2])
    \/ \E i \in 0 .. MaxMaps - 1 : SelectMap(i)
    \/ SaveSession
    \/ OpenSession

SpecPan == InitPan /\ [][NextPan]_vars

\* the active map, its surface and its pan
Active == Get(active_map(World))
ActiveImg == Get(app.map_images[Active.id])

\* pan <= max(0, dim - size / scale), the division exact
WithinExact(pan, dim, size) ==
    /\ 0 <= pan
    /\ pan * pv.scale[1] <= Max(0, dim * pv.scale[1] - size * pv.scale[2])

\* pan <= max(0, dim - int(size / scale))
WithinTrunc(pan, dim, size) ==
    /\ 0 <= pan
    /\ pan <= Max(0, dim - IntDiv(size, pv.scale))

C4_PanAlwaysClamped ==
    (IsSome(active_map(World)) /\ IsSome(app.map_images[Active.id])) =>
        /\ Active.pan_x \in Int /\ Active.pan_y \in Int
        /\ WithinTrunc(Active.pan_x, ActiveImg[1], pv.w)
        /\ WithinTrunc(Active.pan_y, ActiveImg[2], pv.h)

WIdle == try_load_session(remove_map(
             add_map(WLoaded(FileA, <<2, 2>>, 30), FileA2, 1, TileMm), 0))

InitIdle == InitFrom(W0(DmSize, <<2, 2>>, 30)) \/ InitFrom(WIdle)

NextIdle ==
    \/ \E t \in {TOOL_BRUSH, TOOL_RECT} : SetTool(t)
    \/ \E r \in BOOLEAN : ModeChange(r)
    \/ RevealAll
    \/ HideAll
    \/ \E p \in ScreenPts : Press(p[1], p[2])
    \/ \E p \in ScreenPts : Drag(p[1], p[2])
    \/ \E p \in ScreenPts : Release(p[1], p[2])
    \/ \E dx, dy \in Deltas : PanMap(dx, dy)
    \/ \E i \in 0 .. MaxMaps - 1 : SelectMap(i)

SpecIdle == InitIdle /\ [][NextIdle]_vars

\* no map is current, or the current map has no surface or no mask
NoCurrent ==
    \/ IsNone(active_map(World))
    \/ IsNone(app.map_images[Active.id])
    \/ IsNone(app.fog_masks[Active.id])

EditOps == {"press", "drag", "release", "reveal_all", "hide_all", "pan_map"}

\* what a view shows
Shown(view) == <<view.map_image, view.fog_mask, view.scale, view.current_image>>

\* C6: while no map or mask is current, a brush press, drag or release, a
\* rectangle, reveal-all, hide-all and pan_map change no mask, no pan and
\* nothing either view shows, and write nothing to disk.
C6_NoOpWithoutMap ==
    [][(NoCurrent /\ obs'.op \in EditOps) =>
         /\ app'.fog_masks = app.fog_masks
         /\ app'.maps = app.maps
         /\ disk' = disk
         /\ Shown(dm') = Shown(dm) /\ dm'.overlay = dm.overlay
         /\ Shown(pv') = Shown(pv)]_vars

(***************************************************************************)
(* SpecFog: a FogEditor on its own (map_canvas.py), constructed on any     *)
(* greyscale image of FogEdge x 2 pixels, its four operations called with  *)
(* centres and corners inside and outside the image.  The editor is kept   *)
(* in dm.brush_editor, the attribute where DMView keeps its FogEditor.     *)
(***************************************************************************)
Greys == {0, 128, 255}
FogMasks == {[w |-> FogEdge, h |-> 2, px |-> f] :
                f \in [Pixels(FogEdge, 2) -> Greys]}
\* brush centres and rectangle corners: inside the image and one pixel outside
FogXs == -1 .. FogEdge
FogYs == -1 .. 2
FogRadii == 0 .. 2

\* FogEditor(fog_mask)
WFog(mask) == [W0(DmSize, <<2, 2>>, 30) EXCEPT !.dm.brush_editor = Some(mask)]

InitFog == \E mask \in FogMasks : InitFrom(WFog(mask))

\* the editor's mask
EditorMask == Get(dm.brush_editor)

\* FogEditor.apply_brush(x, y, radius, reveal)
FogBrush(x, y, radius, reveal) ==
    Commit([Enter("editor_apply_brush") EXCEPT
               !.dm.brush_editor = Some(apply_brush(Get(@), x, y, radius, reveal))])

\* FogEditor.apply_rectangle(x1, y1, x2, y2, reveal)
FogRectangle(x1, y1, x2, y2, reveal) ==
    Commit([Enter("editor_apply_rectangle") EXCEPT
               !.dm.brush_editor = Some(apply_rectangle(Get(@), x1, y1, x2, y2, reveal))])

\* FogEditor.reveal_all()
FogRevealAll ==
    Commit([Enter("editor_reveal_all") EXCEPT
               !.dm.brush_editor = Some(reveal_all(Get(@)))])

\* FogEditor.hide_all()
FogHideAll ==
    Commit([Enter("editor_hide_all") EXCEPT
               !.dm.brush_editor = Some(hide_all(Get(@)))])

NextFog ==
    \/ \E x \in FogXs, y \in FogYs, r \in FogRadii, reveal \in BOOLEAN :
           FogBrush(x, y, r, reveal)
    \/ \E x1, x2 \in FogXs, y1, y2 \in FogYs, reveal \in BOOLEAN :
           FogRectangle(x1, y1, x2, y2, reveal)
    \/ FogRevealAll
    \/ FogHideAll

SpecFog == InitFog /\ [][NextFog]_vars

\* C11: apply_brush is idempotent: on every mask, for every centre, radius
\* and mode, a second application with the same parameters leaves the mask
\* bit for bit as the first left it.
C11_BrushIdempotent ==
    \A x \in FogXs, y \in FogYs, r \in FogRadii, reveal \in BOOLEAN :
        apply_brush(apply_brush(EditorMask, x, y, r, reveal), x, y, r, reveal)
            = apply_brush(EditorMask, x, y, r, reveal)

\* a brush has left a mask with a grey, a hidden and a revealed pixel
C11_Witness ==
    /\ obs.op = "editor_apply_brush"
    /\ \E p, q, s \in Pixels(FogEdge, 2) :
         /\ EditorMask.px[p] = 128
         /\ EditorMask.px[q] = 0
         /\ EditorMask.px[s] = 255

\* C12: reveal_all leaves every pixel 255 and hide_all every pixel 0 whatever
\* the mask was, and reveal_all, then hiding any region by rectangle or brush,
\* then reveal_all leaves every pixel 255.
C12_RevealHideAll ==
    /\ obs.op = "editor_reveal_all" => EditorMask = NewMask(FogEdge, 2, 255)
    /\ obs.op = "editor_hide_all" => EditorMask = NewMask(FogEdge, 2, 0)
    /\ \A x1, x2 \in FogXs, y1, y2 \in FogYs :
         reveal_all(apply_rectangle(reveal_all(EditorMask), x1, y1, x2, y2, FALSE))
             = NewMask(FogEdge, 2, 255)
    /\ \A x \in FogXs, y \in FogYs, r \in FogRadii :
         reveal_all(apply_brush(reveal_all(EditorMask), x, y, r, FALSE))
             = NewMask(FogEdge, 2, 255)

\* reveal_all has run on the editor and every pixel is 255
C12_Witness ==
    /\ obs.op = "editor_reveal_all"
    /\ \A p \in Pixels(FogEdge, 2) : EditorMask.px[p] = 255

\* C13: whenever no stroke is in progress (button 1 is up: every press has had
\* its release, or the last edit was a rectangle, reveal-all or hide-all) the
\* mask the player view holds and the mask on disk both equal the in-memory
\* mask of the active map.
C13_QuiescentMasksAgree ==
    (~env.b1 /\ IsSome(active_map(World)) /\ IsSome(app.fog_masks[Active.id])) =>
        /\ pv.fog_mask = app.fog_masks[Active.id]
        /\ disk.fog[Active.fog_path] = app.fog_masks[Active.id]

\* every pixel of the stamp (x, y, radius) holds the fill value of the mode
HasStamp(mask, x, y, radius, reveal) ==
    \A p \in Pixels(mask.w, mask.h) :
        InDisc(p, x, y, radius) => mask.px[p] = FillColor(reveal)

\* the stamp centres of the sample that moved the brush from last to pos
SampleCentres(last, pos, radius) ==
    LET dx == pos[1] - last[1]
        dy == pos[2] - last[2]
        steps == StepsOf(dx, dy, Max(1, radius \div 2))
    IN  IF dx = 0 /\ dy = 0 THEN {pos}
        ELSE {<<Trunc(last[1] * steps + dx * i, steps),
                Trunc(last[2] * steps + dy * i, steps)>> : i \in 1 .. steps}

\* C14: when a brush press or drag-sample handler returns on a loaded map, the
\* in-memory mask of the active map contains every stamp of that sample and
\* the mask the authoring view holds equals the in-memory mask.
C14_SampleInMemoryAndPreview ==
    [][(obs'.op \in {"press", "drag"} /\ dm.current_tool = TOOL_BRUSH /\ ~NoCurrent) =>
         LET mem == app'.fog_masks[Active.id]
             pos == Get(dm'.brush_last_map_pos)
             r == brush_radius(World)
             starts == obs'.op = "press" \/ IsNone(dm.brush_editor)
                           \/ IsNone(dm.brush_last_map_pos)
             centres == IF starts THEN {pos}
                        ELSE SampleCentres(Get(dm.brush_last_map_pos), pos, r)
         IN  /\ IsSome(mem) /\ IsSome(dm'.brush_last_map_pos)
             /\ \A c \in centres : HasStamp(Get(mem), c[1], c[2], r, dm.reveal_mode)
             /\ dm'.fog_mask = mem]_vars

\* a revealing drag sample ending at map pixel (2, 1) has returned: the mask in
\* memory, which the authoring view also holds, has the stamps at (1, 0) and
\* (2, 1) and a hidden pixel
C14_Witness ==
    /\ obs.op = "drag" /\ dm.current_tool = TOOL_BRUSH /\ dm.reveal_mode
    /\ IsSome(dm.brush_editor)
    /\ dm.brush_last_map_pos = Some(<<2, 1>>)
    /\ dm.fog_mask = app.fog_masks[Active.id]
    /\ HasStamp(Get(dm.fog_mask), 1, 0, 1, TRUE)
    /\ HasStamp(Get(dm.fog_mask), 2, 1, 1, TRUE)
    /\ \E p \in Pixels(Get(dm.fog_mask).w, Get(dm.fog_mask).h) :
           Get(dm.fog_mask).px[p] = 0

(***************************************************************************)
(* SpecAbandon: the fog tools of SpecEdit, and the session saved and       *)
(* opened again.  A stroke is abandoned when the tool is switched while    *)
(* button 1 is held: the release then reaches the rectangle tool and       *)
(* _end_brush never runs for that stroke.                                  *)
(***************************************************************************)
NextAbandon ==
    \/ \E t \in {TOOL_BRUSH, TOOL_RECT} : SetTool(t)
    \/ \E r \in BOOLEAN : ModeChange(r)
    \/ RevealAll
    \/ HideAll
    \/ \E p \in ScreenPts : Press(p[1], p[2])
    \/ \E p \in ScreenPts : Drag(p[1], p[2])
    \/ \E p \in ScreenPts : Release(p[1], p[2])
    \/ SaveSession
    \/ OpenSession

SpecAbandon == InitEdit /\ [][NextAbandon]_vars

\* a step that abandons a stroke or follows it without editing the fog: a tool
\* or mode switch, a release that reaches the rectangle tool with no rectangle
\* begun, a save or a reopening of the session
NotAnEdit ==
    \/ obs'.op \in {"set_tool", "mode_change", "save_session", "open_session"}
    \/ obs'.op = "release" /\ dm.current_tool = TOOL_RECT /\ IsNone(dm.rect_start)

\* C15: when a stroke is abandoned the stamps already applied stay in the
\* in-memory mask, and no later operation that is not itself an edit restores
\* an earlier mask: such steps leave the in-memory mask of every map as it was.
C15_AbandonedStrokeKept ==
    [][NotAnEdit => app'.fog_masks = app.fog_masks]_vars

\* a revealing stroke was abandoned (its editor was never ended, button 1 is
\* up) and the session was opened again: the in-memory mask still is the
\* editor's, stamps included
C15_Witness ==
    /\ obs.op = "open_session" /\ ~env.b1
    /\ IsSome(dm.brush_editor)
    /\ app.fog_masks[Active.id] = dm.brush_editor
    /\ \E p, q \in Pixels(Get(dm.brush_editor).w, Get(dm.brush_editor).h) :
         /\ Get(dm.brush_editor).px[p] = 255
         /\ Get(dm.brush_editor).px[q] = 0

\* a view holds no surface and no mask and shows no composite
Blank(view) ==
    IsNone(view.map_image) /\ IsNone(view.fog_mask) /\ IsNone(view.current_image)

\* a view holds, and shows, the surface and the mask of the active map
ShowsActive(view) ==
    /\ view.map_image = app.map_images[Active.id]
    /\ view.fog_mask = app.fog_masks[Active.id]
    /\ IsSome(view.current_image) =>
         /\ Get(view.current_image).surface = Get(view.map_image)
         /\ Get(view.current_image).fog = Get(view.fog_mask)

\* C16: after remove_map the removed map's surface and mask are discarded: the
\* in-memory stores hold entries only for maps of the session, and each view
\* holds and renders the active map's surface and mask, or nothing at all when
\* the removed map was the last one.
C16_RemovedMapDiscarded ==
    obs.op = "remove_map" =>
        /\ \A id \in Ids :
             (IsSome(app.map_images[id]) \/ IsSome(app.fog_masks[id])) =>
                 \E i \in 1 .. Len(app.maps) : app.maps[i].id = id
        /\ IF IsSome(active_map(World))
           THEN ShowsActive(dm) /\ ShowsActive(pv)
           ELSE Blank(dm) /\ Blank(pv)

(***************************************************************************)
(* SpecRender: a MapRenderer on its own (the player view's), given         *)
(* surfaces, masks and positive scales, and asked to render viewports of   *)
(* negative, zero and positive size at pans before, inside and beyond the  *)
(* map.  The caller keeps what render returns in current_image.            *)
(***************************************************************************)
RenderSurfaces == {<<2, 2>>, <<3, 2>>}
\* all hidden, all revealed, and a mask of other dimensions than the surface
RenderMasks(img) == {NewMask(img[1], img[2], 0), NewMask(img[1], img[2], 255),
                     NewMask(1, 1, 0)}
\* 1, 2 and 1/4: at 1/4 both surfaces scale to width 0
RenderScales == {<<1, 1>>, <<2, 1>>, <<1, 4>>}
RenderSizes == {-1, 0, 3}
RenderPans == {-1, 0, 5}

InitRender ==
    \/ InitFrom(W0(DmSize, <<2, 2>>, 30))
    \/ \E img \in RenderSurfaces, scale \in RenderScales :
         \E fog \in RenderMasks(img) :
           InitFrom([W0(DmSize, <<2, 2>>, 30) EXCEPT
                        !.pv = renderer_set_scale(renderer_set_map(@, img, fog), scale)])

\* renderer.set_map(map_image, fog_mask)
RendererSetMap(img, fog) ==
    /\ pv.map_image # Some(img) \/ pv.fog_mask # Some(fog)
    /\ Commit([Enter("renderer_set_map") EXCEPT !.pv = renderer_set_map(@, img, fog)])

\* renderer.set_scale(scale)
RendererSetScale(scale) ==
    /\ pv.scale # scale
    /\ Commit([Enter("renderer_set_scale") EXCEPT !.pv = renderer_set_scale(@, scale)])

\* renderer.invalidate_cache()
RendererInvalidate ==
    /\ obs.op # "invalidate_cache"
    /\ Commit([Enter("invalidate_cache") EXCEPT !.pv = invalidate_cache(@)])

\* renderer.render((vw, vh), pan_x, pan_y, is_dm_view = False), the caller
\* catching what it raises
RendererRender(vw, vh, pan_x, pan_y) ==
    LET W == [Enter("render") EXCEPT !.obs.arg = <<vw, vh>>]
        image == render(pv, vw, vh, pan_x, pan_y, FALSE)
    IN  Commit(IF render_raises(pv, vw, vh, pan_x, pan_y)
               THEN [W EXCEPT !.obs.outcome = "raised"]
               ELSE [W EXCEPT !.pv.current_image = image,
                              !.obs.outcome = IF IsSome(image) THEN "image"
                                              ELSE "no output"])

NextRender ==
    \/ \E img \in RenderSurfaces : \E fog \in RenderMasks(img) : RendererSetMap(img, fog)
    \/ \E scale \in RenderScales : RendererSetScale(scale)
    \/ RendererInvalidate
    \/ \E vw, vh \in RenderSizes, pan_x, pan_y \in RenderPans :
           RendererRender(vw, vh, pan_x, pan_y)

SpecRender == InitRender /\ [][NextRender]_vars

\* C17: render with a viewport width or height of zero or less returns no
\* output, and render raises no exception for any viewport size, positive
\* scale, pan and mask.
C17_RenderNeverRaises ==
    obs.op = "render" =>
        /\ obs.outcome # "raised"
        /\ (obs.arg[1] <= 0 \/ obs.arg[2] <= 0) => obs.outcome = "no output"

\* C18: what render returns is cached: after a render that returned an image
\* the renderer holds that image as its valid cached result, to be reused while
\* scale, pan, surface and mask stay as they are.
C18_RenderCached ==
    (obs.op = "render" /\ obs.outcome = "image") =>
        /\ pv.cache_valid
        /\ pv.cached_render = pv.current_image

(***************************************************************************)
(* SpecOverlay: right-button drags on the preview of one 4 x 3 map shown   *)
(* to the players at scale 1, begun on the overlay rectangle or beside it, *)
(* while the player canvas is 2 x 2 (pan range 2 x 1) or 4 x 3 (no range). *)
(***************************************************************************)
FileO == [stem |-> "a", ext |-> "png", w |-> 4, h |-> 3]
PvSizesO == {<<2, 2>>, <<4, 3>>}
\* pointer positions: the overlay's corner at pan (0, 0), and points beside it
OverlayPts == {<<0, 3>>, <<2, 5>>, <<7, 3>>, <<12, 9>>}

WOverlay == add_map(new_session(W0(DmSize, <<2, 2>>, 30)), FileO, 2, TileMm)

InitOverlay == InitFrom(WOverlay)

NextOverlay ==
    \/ \E p \in OverlayPts : RPress(p)
    \/ \E p \in OverlayPts, item \in BOOLEAN : RDrag(p, item)
    \/ \E p \in OverlayPts, item \in BOOLEAN : RRelease(p, item)
    \/ \E s \in PvSizesO : PlayerResize(s[1], s[2])

SpecOverlay == InitOverlay /\ [][NextOverlay]_vars

\* the pan of the active map as session.json holds it
StoredPan ==
    LET m == Get(disk.session).maps[Get(disk.session).active_map_index + 1]
    IN  <<m.pan_x, m.pan_y>>

\* a does not move against the screen delta d: not down when d > 0, not up
\* when d < 0
Follows(d, a, b) == (d > 0 => b >= a) /\ (d < 0 => b <= a)

\* C19: a drag of the overlay or the preview by a positive screen delta on an
\* axis (rightward, downward) never decreases the presentation pan on that
\* axis and one by a negative delta never increases it, and the overlay
\* rectangle moves in the direction the pan moves.
C19_DragSignConvention ==
    [][(obs'.op = "rdrag" /\ IsSome(active_map(World))) =>
         /\ Follows(obs'.arg[1], Active.pan_x, Active'.pan_x)
         /\ Follows(obs'.arg[2], Active.pan_y, Active'.pan_y)
         /\ (IsSome(dm.overlay) /\ IsSome(dm'.overlay)) =>
              /\ Follows(Active'.pan_x - Active.pan_x,
                         Get(dm.overlay)[1], Get(dm'.overlay)[1])
              /\ Follows(Active'.pan_y - Active.pan_y,
                         Get(dm.overlay)[2], Get(dm'.overlay)[2])]_vars

\* C20: when a drag begun on the overlay is released, the pan reached is
\* persisted: after the release handlers return, the pan of the active map in
\* session.json equals its in-memory pan.
C20_ReleasePersistsPan ==
    (obs.op = "rrelease" /\ obs.outcome = "overlay" /\ IsSome(active_map(World))) =>
        /\ IsSome(disk.session)
        /\ Get(disk.session).active_map_index = app.active_map_index
        /\ StoredPan = <<Active.pan_x, Active.pan_y>>

\* an overlay drag that moved the pan off (0, 0) has been released and
\* session.json holds the pan reached
C20_Witness ==
    /\ obs.op = "rrelease" /\ obs.outcome = "overlay"
    /\ Active.pan_x > 0
    /\ StoredPan = <<Active.pan_x, Active.pan_y>>

(***************************************************************************)
(* SpecAuthor: the two maps of SpecPan (player scale 2 and 1) panned and   *)
(* selected while the preview canvas changes size and the brush is pressed *)
(* on it.                                                                  *)
(***************************************************************************)
DmSizes == {<<20, 20>>, <<10, 20>>}
\* one map pixel up and left, or down and right
AuthorDeltas == {-1, 1}

NextAuthor ==
    \/ \E d \in AuthorDeltas : PanMap(d, d)
    \/ \E i \in 0 .. MaxMaps - 1 : SelectMap(i)
    \/ \E s \in DmSizes : DmResize(s[1], s[2])
    \/ \E p \in ScreenPts : Press(p[1], p[2])
    \/ \E p \in ScreenPts : Release(p[1], p[2])

SpecAuthor == InitPan /\ [][NextAuthor]_vars

\* C21: the physical scale governs only the player view: whatever scale the
\* player view is given, once the preview is laid out the DM view's scale is
\* min(width / map_w, height / map_h) x 0.95, its composite is the render at
\* pan (0, 0), and a brush press converts the pointer with pan (0, 0),
\* whatever the pan of the active map.
C21_AuthoringScaleAndPan ==
    /\ (IsSome(dm.map_image) /\ dm.w > 1 /\ dm.h > 1) =>
         /\ RatEq(dm.scale, fit_scale(dm.w, dm.h, Get(dm.map_image)[1],
                                      Get(dm.map_image)[2]))
         /\ dm.current_image = render(dm, dm.w, dm.h, 0, 0, TRUE)
    /\ (obs.op = "press" /\ dm.current_tool = TOOL_BRUSH
            /\ IsSome(dm.brush_last_map_pos)) =>
         dm.brush_last_map_pos =
             Some(screen_to_map(obs.arg[1], obs.arg[2], dm.scale, 0, 0, dm.offset))

\* the brush was pressed at (15, 15) while the active map, shown to the
\* players at scale 2, was panned off (0, 0), and the DM view has its fit scale
C21_Witness ==
    /\ obs.op = "press" /\ obs.arg = <<15, 15>>
    /\ IsSome(dm.brush_last_map_pos)
    /\ Active.pan_x > 0 /\ Active.pan_y > 0
    /\ pv.scale = <<2, 1>>
    /\ ~RatEq(dm.scale, pv.scale)
    /\ dm.brush_last_map_pos =
           Some(screen_to_map(15, 15, dm.scale, 0, 0, dm.offset))

(***************************************************************************)
(* SpecCoord: the functions of map_canvas.py on their own: calculate_scale *)
(* on tile sizes and monitor densities, its result given to the player     *)
(* view as Application._update_views does, and screen_to_map and           *)
(* map_to_screen at that scale on pointer positions at, before and after   *)
(* the viewport offset.  ret is what the last call returned.               *)
(***************************************************************************)
\* tile_pixels; tile_size_mm (2 and 25.4); monitor pixels per mm (1 and 3.78)
CoordTilePixels == {1, 2, 4, 70}
CoordTileMm == {<<2, 1>>, <<127, 5>>}
CoordPpmm == {<<1, 1>>, <<189, 50>>}
CoordXs == {-3, -1, 0, 2, 5}
CoordYs == {-1, 4}
CoordPanXs == {-1, 0, 2}
CoordPanYs == {0, 3}
CoordOffsets == {<<0, 0>>, <<2, 1>>}

InitCoord == InitFrom(W0(DmSize, <<2, 2>>, 30))

\* scale = calculate_scale(tile_pixels, tile_size_mm, ppmm); set_scale(scale)
CalculateScale(tile_pixels, tile_mm, ppmm) ==
    LET scale == calculate_scale(tile_pixels, tile_mm, ppmm)
    IN  Commit(pv_set_scale([Enter("calculate_scale") EXCEPT
                                !.obs.arg = <<tile_pixels, tile_mm, ppmm>>,
                                !.obs.ret = Some(scale)], scale))

\* screen_to_map(sx, sy, scale, pan_x, pan_y, off) at the player view's scale
ScreenToMap(sx, sy, pan_x, pan_y, off) ==
    Commit([Enter("screen_to_map") EXCEPT
               !.obs.arg = <<sx, sy, pan_x, pan_y, off>>,
               !.obs.ret = Some(screen_to_map(sx, sy, pv.scale, pan_x, pan_y, off))])

\* map_to_screen(*screen_to_map(sx, sy, ...), ...) with the same scale, pan
\* and offset
RoundTrip(sx, sy, pan_x, pan_y, off) ==
    LET m == screen_to_map(sx, sy, pv.scale, pan_x, pan_y, off)
    IN  Commit([Enter("round_trip") EXCEPT
                   !.obs.arg = <<sx, sy, pan_x, pan_y, off>>,
                   !.obs.ret = Some(map_to_screen(m[1], m[2], pv.scale,
                                                  pan_x, pan_y, off))])

NextCoord ==
    \/ \E tp \in CoordTilePixels, mm \in CoordTileMm, ppmm \in CoordPpmm :
           CalculateScale(tp, mm, ppmm)
    \/ \E sx \in CoordXs, sy \in CoordYs, pan_x \in CoordPanXs, pan_y \in CoordPanYs,
          off \in CoordOffsets : ScreenToMap(sx, sy, pan_x, pan_y, off)
    \/ \E sx \in CoordXs, sy \in CoordYs, pan_x \in CoordPanXs, pan_y \in CoordPanYs,
          off \in CoordOffsets : RoundTrip(sx, sy, pan_x, pan_y, off)

SpecCoord == InitCoord /\ [][NextCoord]_vars

\* C22: calculate_scale returns (tile_size_mm x monitor_ppmm) / tile_pixels
\* for every tile_pixels > 0 and tile_size_mm > 0, and calculate_scale(70,
\* 25.4, 3.78) is within 0.001 of 1.372.
C22_CalculateScale ==
    obs.op = "calculate_scale" =>
        LET tp == obs.arg[1]
            mm == obs.arg[2]
            ppmm == obs.arg[3]
            r == Get(obs.ret)
        IN  /\ r[2] > 0
            /\ r[1] * tp * mm[2] * ppmm[2] = mm[1] * ppmm[1] * r[2]
            /\ obs.arg = <<70, <<127, 5>>, <<189, 50>>>> =>
                 /\ 1000 * r[1] - 1372 * r[2] <= r[2]
                 /\ 1372 * r[2] - 1000 * r[1] <= r[2]

\* calculate_scale(70, 25.4, 3.78) has returned and is the player view's scale
C22_Witness ==
    /\ obs.op = "calculate_scale"
    /\ obs.arg = <<70, <<127, 5>>, <<189, 50>>>>
    /\ RatEq(pv.scale, <<24003, 17500>>)
    /\ obs.ret = Some(pv.scale)

\* floor(a / s) for a rational s > 0
FloorDiv(a, s) == (a * s[2]) \div s[1]

\* C23: screen_to_map returns floor((sx - offset_x) / scale) + pan_x and
\* floor((sy - offset_y) / scale) + pan_y for all integer positions, pans and
\* offsets and every scale > 0, positions left of or above the offset
\* included.
C23_ScreenToMapFloors ==
    obs.op = "screen_to_map" =>
        LET sx == obs.arg[1]
            sy == obs.arg[2]
            off == obs.arg[5]
        IN  Get(obs.ret) = <<FloorDiv(sx - off[1], pv.scale) + obs.arg[3],
                             FloorDiv(sy - off[2], pv.scale) + obs.arg[4]>>

\* the scale evenly divides a pixel offset d: d / scale is an integer
Divides(s, d) == (d * s[2]) % s[1] = 0

\* C24: for every scale > 0 that evenly divides the pixel offsets (sx -
\* offset_x, sy - offset_y) and every pan and viewport offset,
\* map_to_screen(screen_to_map(sx, sy)) is within 1 of (sx, sy) on each axis.
C24_RoundTripWithinOne ==
    (obs.op = "round_trip"
        /\ Divides(pv.scale, obs.arg[1] - obs.arg[5][1])
        /\ Divides(pv.scale, obs.arg[2] - obs.arg[5][2])) =>
        /\ Get(obs.ret)[1] - obs.arg[1] \in -1 .. 1
        /\ Get(obs.ret)[2] - obs.arg[2] \in -1 .. 1

\* at scale 2 the position (0, -1), left of and above the offset (2, 1) by
\* one map pixel each way, has gone to the map and back with pan (2, 3)
C24_Witness ==
    /\ obs.op = "round_trip"
    /\ pv.scale = <<2, 1>>
    /\ obs.arg = <<0, -1, 2, 3, <<2, 1>>>>
    /\ obs.ret = Some(<<0, -1>>)

(***************************************************************************)
(* SpecStroke: brush strokes along one map of 12 x 1 pixels, drawn at      *)
(* scale 19/12 on the 20 x 20 preview, with brush sizes 5, 10 and 15       *)
(* screen pixels (radii 3, 6 and 9 map pixels, steps 1, 3 and 4) and drag  *)
(* samples 1 to 12 map pixels apart, along the row and across it.          *)
(***************************************************************************)
FileS == [stem |-> "a", ext |-> "png", w |-> 12, h |-> 1]
\* pointer positions over map pixels (0,0), (1,1), (5,0) and (12,1)
StrokePts == {<<0, 9>>, <<3, 11>>, <<8, 9>>, <<19, 11>>}
BrushKeys == {-5, 5}

WStroke == add_map(new_session(W0(DmSize, <<2, 2>>, 5)), FileS, 1, TileMm)

InitStroke == InitFrom(WStroke)

NextStroke ==
    \/ \E d \in BrushKeys : AdjustBrushSize(d)
    \/ HideAll
    \/ \E p \in StrokePts : Press(p[1], p[2])
    \/ \E p \in StrokePts : Drag(p[1], p[2])
    \/ \E p \in StrokePts : Release(p[1], p[2])

SpecStroke == InitStroke /\ [][NextStroke]_vars

\* squared distance of two map positions
Dist2(a, b) == (a[1] - b[1]) * (a[1] - b[1]) + (a[2] - b[2]) * (a[2] - b[2])

\* a step is a drag sample of a running brush stroke that moved the pointer's
\* map position
MovingSample ==
    /\ obs'.op = "drag"
    /\ dm.current_tool = TOOL_BRUSH
    /\ IsSome(dm.brush_editor) /\ IsSome(dm.brush_last_map_pos)
    /\ IsSome(dm'.brush_last_map_pos)
    /\ dm'.brush_last_map_pos # dm.brush_last_map_pos

\* C25 as stated: a drag sample at distance d > 0 stamps the brush at exactly
\* max(1, round(d / step)) points with step = max(1, radius x 0.5), the last
\* of them on the pointer's map position.  (n is a nearest integer of d / step
\* when |2d - 2n step| <= step; twice the step is max(2, radius).)
C25_StampCountRounded ==
    [][MovingSample =>
         LET d2 == Dist2(Get(dm.brush_last_map_pos), Get(dm'.brush_last_map_pos))
             step2 == Max(2, brush_radius(World))
             n == Len(obs'.stamps)
         IN  /\ n >= 1
             /\ 16 * d2 <= (2 * n + 1) * step2 * (2 * n + 1) * step2
             /\ n = 1 \/ (2 * n - 1) * step2 * (2 * n - 1) * step2 <= 16 * d2
             /\ obs'.stamps[n] = Get(dm'.brush_last_map_pos)]_vars

\* C25, amended: a drag sample at distance d > 0 stamps the brush at exactly
\* n = max(1, floor(d / step)) points with step = max(1, floor(radius / 2));
\* stamp i is at last + (current - last) x i / n with each coordinate
\* truncated toward zero, and the last stamp is on the pointer's map position.
C25_StampCountTruncated ==
    [][MovingSample =>
         LET last == Get(dm.brush_last_map_pos)
             pos == Get(dm'.brush_last_map_pos)
             d2 == Dist2(last, pos)
             step == Max(1, brush_radius(World) \div 2)
             n == Len(obs'.stamps)
         IN  /\ n >= 1
             /\ d2 < (n + 1) * step * (n + 1) * step
             /\ n = 1 \/ n * step * n * step <= d2
             /\ \A i \in 1 .. n :
                    obs'.stamps[i] =
                        <<Trunc(last[1] * n + (pos[1] - last[1]) * i, n),
                          Trunc(last[2] * n + (pos[2] - last[2]) * i, n)>>
             /\ obs'.stamps[n] = pos
             /\ HasStamp(Get(dm'.brush_editor), pos[1], pos[2],
                         brush_radius(World), dm.reveal_mode)]_vars

\* a sample from map (1,1) to (12,1) with radius 6 (step 3) has stamped three
\* times, where round(11 / 3) is 4, the last stamp on (12,1)
C25_Witness ==
    /\ obs.op = "drag"
    /\ dm.brush_size = 10
    /\ Len(obs.stamps) = 3
    /\ obs.stamps[3] = <<12, 1>>
    /\ dm.brush_last_map_pos = Some(<<12, 1>>)
    /\ obs.stamps[1] = <<4, 1>>

\* the last sampled position followed by the stamp centres of the sample
StampPath == <<Get(dm.brush_last_map_pos)>> \o obs'.stamps

\* the stamps of the sample from (0,0) to (100,0) with radius 10
ExampleStamps == StampCentres(<<0, 0>>, 100, 0, StepsOf(100, 0, Max(1, 10 \div 2)))

\* C26 as stated: within a stroke consecutive stamp centres are at most half
\* the radius (the step, max(1, radius x 0.5)) apart, for every drag distance
\* and radius; from (0,0) to (100,0) with radius 10 there are at least 19
\* stamps, at most 5 pixels apart.
C26_SpacingAtMostStep ==
    [][MovingSample =>
         /\ \A i \in 1 .. Len(obs'.stamps) :
                4 * Dist2(StampPath[i], StampPath[i + 1])
                    <= Max(2, brush_radius(World)) * Max(2, brush_radius(World))
         /\ Len(ExampleStamps) >= 19
         /\ \A i \in 1 .. Len(ExampleStamps) - 1 :
                Dist2(ExampleStamps[i], ExampleStamps[i + 1]) <= 25]_vars

\* C26, amended: within a stroke consecutive stamp centres differ by at most
\* twice the step on each axis, step = max(1, floor(radius / 2)), for every
\* drag distance and radius; from (0,0) to (100,0) with radius 10 there are
\* 20 stamps, 5 pixels apart.
C26_SpacingUnderTwoSteps ==
    [][MovingSample =>
         LET step == Max(1, brush_radius(World) \div 2)
         IN  /\ \A i \in 1 .. Len(obs'.stamps) :
                    /\ StampPath[i + 1][1] - StampPath[i][1] \in -2 * step .. 2 * step
                    /\ StampPath[i + 1][2] - StampPath[i][2] \in -2 * step .. 2 * step
             /\ Len(ExampleStamps) = 20
             /\ \A i \in 1 .. Len(ExampleStamps) - 1 :
                    Dist2(ExampleStamps[i], ExampleStamps[i + 1]) = 25]_vars


\* a sample from map (1,1) to (12,1) with radius 6 has stamped at 4, 8 and 12
\* along the row: 4 apart, more than half the radius
C26_Witness ==
    /\ obs.op = "drag"
    /\ brush_radius(World) = 6
    /\ obs.stamps = <<<<4, 1>>, <<8, 1>>, <<12, 1>>>>
    /\ 4 * Dist2(obs.stamps[1], obs.stamps[2]) > 6 * 6


\* the mask pixel a pixel of the scaled surface is drawn from
MaskPixel(image, xy) ==
    image.fog.px[<<nearest(xy[1], IntMul(image.surface[1], image.scale), image.fog.w),
                   nearest(xy[2], IntMul(image.surface[2], image.scale), image.fog.h)>>]

\* C27: in a rendered image the occluder layer has, over a hidden mask pixel
\* (0), the alpha of the mode (255 for the presentation, 120 for authoring) and
\* over a revealed one (255) alpha 0; in the presentation, with a mask of 0s
\* and 255s, every pixel of the surface is fully occluded or the unmodified
\* surface: all occluded under an all-0 mask, the plain surface under an
\* all-255 mask.
C27_OccluderAlpha ==
    /\ IsSome(pv.current_image) =>
         LET image == Get(pv.current_image)
         IN  /\ \A xy \in ScaledPixels(image) :
                  /\ MaskPixel(image, xy) = 0 => fog_alpha(image, xy) = 255
                  /\ MaskPixel(image, xy) = 255 => fog_alpha(image, xy) = 0
                  /\ BinaryMask(image.fog) =>
                       composited(image, xy) \in {"occluder", "surface"}
             /\ image.fog = NewMask(image.fog.w, image.fog.h, 0) =>
                  \A xy \in ScaledPixels(image) : composited(image, xy) = "occluder"
             /\ image.fog = NewMask(image.fog.w, image.fog.h, 255) =>
                  \A xy \in ScaledPixels(image) : composited(image, xy) = "surface"
    /\ IsSome(dm.current_image) =>
         LET image == Get(dm.current_image)
         IN  \A xy \in ScaledPixels(image) :
               /\ MaskPixel(image, xy) = 0 => fog_alpha(image, xy) = 120
               /\ MaskPixel(image, xy) = 255 => fog_alpha(image, xy) = 0

\* both views show a mask that is hidden in places and revealed in others: the
\* presentation has occluded and plain pixels, the authoring view alphas 120
\* and 0
C27_Witness ==
    /\ IsSome(pv.current_image) /\ IsSome(dm.current_image)
    /\ \E a, b \in ScaledPixels(Get(pv.current_image)) :
         /\ composited(Get(pv.current_image), a) = "occluder"
         /\ composited(Get(pv.current_image), b) = "surface"
    /\ \E a, b \in ScaledPixels(Get(dm.current_image)) :
         /\ fog_alpha(Get(dm.current_image), a) = 120
         /\ fog_alpha(Get(dm.current_image), b) = 0


\* the overlay the claim describes, for the active map: the projections of pan
\* and pan + visible at the authoring scale with pan 0 and the preview offset,
\* visible = floor(player canvas / player scale)
ProjectedViewport ==
    LET vis_w == (pv.w * pv.scale[2]) \div pv.scale[1]
        vis_h == (pv.h * pv.scale[2]) \div pv.scale[1]
        sx(m) == (m * dm.scale[1]) \div dm.scale[2] + dm.offset[1]
        sy(m) == (m * dm.scale[1]) \div dm.scale[2] + dm.offset[2]
    IN  <<sx(Active.pan_x), sy(Active.pan_y),
          sx(Active.pan_x + vis_w), sy(Active.pan_y + vis_h)>>

\* the claim's example: a player canvas of 400 x 300 at scale 1.3716 and pan
\* (0, 0), projected at scale 1 with no offset to read the map rectangle
ExampleViewport ==
    overlay_rect([World EXCEPT !.pv.w = 400, !.pv.h = 300,
                               !.pv.scale = <<24003, 17500>>,
                               !.app.maps[app.active_map_index + 1].pan_x = 0,
                               !.app.maps[app.active_map_index + 1].pan_y = 0],
                 One, <<0, 0>>)

\* C28: after every pan_map and every refresh of the authoring view (here: of
\* a map selection) with a laid-out player canvas, the overlay rectangle's
\* corners are the authoring-screen projections of the map points pan and
\* pan + visible; a 400 x 300 canvas at scale 1.3716 and pan (0,0) covers the
\* map rectangle [0,0]-[291,218].
C28_OverlayIsProjectedViewport ==
    (obs.op \in {"pan_map", "select_map"} /\ IsSome(active_map(World))
        /\ pv.w > 1 /\ pv.h > 1) =>
        /\ dm.overlay = Some(ProjectedViewport)
        /\ ExampleViewport = Some(<<0, 0, 291, 218>>)


\* C29: the edits of a stroke are written only to the mask of the map that
\* was active when the stroke began: a release (or drag sample) of a running
\* stroke, with whatever map active by then, changes the mask of no other map,
\* in memory or on disk.
C29_StrokeWritesItsOwnMap ==
    [][(obs'.op \in {"drag", "release"} /\ dm.current_tool = TOOL_BRUSH
          /\ IsSome(dm.brush_editor) /\ IsSome(obs.origin)) =>
         \A i \in 1 .. Len(app.maps) :
             app.maps[i].id # Get(obs.origin) =>
                 /\ app'.fog_masks[app.maps[i].id] = app.fog_masks[app.maps[i].id]
                 /\ disk'.fog[app.maps[i].fog_path] = disk.fog[app.maps[i].fog_path]]_vars


\* the map of the session with the active map's id, after the step
StillListed == \E i \in 1 .. Len(app'.maps) : app'.maps[i].id = Active.id

\* C30: removing a map other than the active one leaves the active map
\* unchanged (the same map id stays active), and after every step of a run of
\* add, remove and select the active index refers to an existing map whenever
\* the session has at least one map.
C30_ActiveMapKept ==
    [][/\ (obs'.op = "remove_map" /\ app.has /\ IsSome(active_map(World))
             /\ StillListed) =>
            /\ IsSome(active_map(World)')
            /\ Get(active_map(World)').id = Active.id
       /\ (app'.has /\ Len(app'.maps) >= 1) =>
            app'.active_map_index \in 0 .. Len(app'.maps) - 1]_vars

=============================================================================
